---- MODULE Spec2Model ----
(***************************************************************************)
(* PulseConnect (blood_management_system): the storage layer              *)
(* (DatabaseStorage) and the HTTP routes that drive the credit ledger,    *)
(* the donation records and the blood-request status.                     *)
(*                                                                         *)
(* A handler is a sequence of awaited database statements; each statement *)
(* is one atomic step, and the steps of the requests in flight interleave  *)
(* in any order (Node.js runs another handler whenever one awaits).  The   *)
(* requests in flight are a bag: a request is its handler's position and   *)
(* local variables, and two requests with the same ones are interchangeable.*)
(***************************************************************************)
EXTENDS Integers, Sequences, FiniteSets, Bags, TLC

\* ---------------------------------------------------------------- bounds
NumProcs == 2        \* HTTP requests that can be in flight together
MaxOps == 2          \* HTTP requests started in one behaviour
MaxRequests == 2     \* rows of blood_requests

\* ------------------------------------------------------- optional values
\* undefined / null is the empty tuple, a present value v is <<v>>.
None == <<>>
Some(v) == <<v>>
IsSome(o) == o # <<>>
Val(o) == o[1]

\* ------------------------------------------------------------------ dates
\* A date is (absolute month index, day of month), encoded so that the
\* order of the encodings is the order of the dates.
MkDate(m, d) == m * 32 + d
MonthOf(t) == t \div 32
DayOf(t) == t % 32

DaysInMonth(m) ==
  LET k == m % 12
  IN  IF k = 1 THEN 28
      ELSE IF k \in {3, 5, 8, 10} THEN 30
      ELSE 31

\* Date.prototype.setMonth(getMonth() + delta): the day of month is kept and
\* a day past the end of the target month rolls over into the next month.
SetMonth(t, delta) ==
  LET m == MonthOf(t) + delta
      d == DayOf(t)
  IN  IF d > DaysInMonth(m) THEN MkDate(m + 1, d - DaysInMonth(m))
      ELSE MkDate(m, d)

\* The instants the server's clock (new Date()) takes, in order.
TimePoints == << MkDate(12, 15), MkDate(18, 15) >>
\* donationDate values a request body carries.
DateInputs == { MkDate(6, 15) }

\* ----------------------------------------------------------------- inputs
Users == {"u1", "u2", "u3"}
DonorIds == {1, 2, 3}
CreditsEarnedInputs == { None, Some(0), Some(3) }
SpendAmounts == { -2, 3 }
StatusInputs == {"active", "fulfilled", "cancelled", "closed"}
RequestIdInputs == 1..MaxRequests

VARIABLES
  donors,               \* donors table: id -> row
  bloodRequests,        \* blood_requests table: id -> row
  donations,            \* donations table, in insertion order
  creditTransactions,   \* credit_transactions table, in insertion order
  clock,                \* index into TimePoints of the server's current time
  inflight,             \* the requests being served: a bag of handler states
  res,                  \* the last response sent
  nOps,                 \* requests started so far
  aborted,              \* donors one of whose operations threw after a write
  faults,               \* whether the persistence layer may fail a statement
  call                  \* the last read-only storage call made on its own: inputs and result

vars == << donors, bloodRequests, donations, creditTransactions, clock, inflight, res,
           nOps, aborted, faults, call >>

db == << donors, bloodRequests, donations, creditTransactions >>

now == TimePoints[clock]

\* ----------------------------------------------------------- schema rows
\* donors: credits default 0, totalDonations default 0, lastDonationDate null,
\* isAvailable default true; bloodGroup, latitude and longitude come from the
\* registration form (here group O+ at the reference point).  A position is in
\* kilometres north (latitude) and east (longitude) of a reference point.
NewDonor(userId) ==
  [ userId |-> userId, lastDonationDate |-> None, credits |-> 0, totalDonations |-> 0,
    isAvailable |-> TRUE, bloodGroup |-> "O+", latitude |-> 0, longitude |-> 0 ]

\* blood_requests: status default 'active'.
NewBloodRequest(requesterId) ==
  [ requesterId |-> requesterId, status |-> "active" ]

\* donations: creditsEarned default 5 when the insert gives none.
DefaultCreditsEarned == 5

NewDonationRow(id, donorId, requestId, donationDate, creditsEarned) ==
  [ id |-> id, donorId |-> donorId, requestId |-> requestId,
    donationDate |-> donationDate,
    creditsEarned |-> IF IsSome(creditsEarned) THEN Val(creditsEarned)
                      ELSE DefaultCreditsEarned ]

\* A handler's state: pc is the statement it is about to execute, the rest are
\* its local variables (here with the values they have before they are set).
NoReq ==
  [ pc |-> "", userId |-> "", donorId |-> 0, requestId |-> None,
    donationDate |-> 0, creditsEarned |-> None, amount |-> 0, status |-> "",
    newDonation |-> 0, before |-> None, donorData |-> None ]

\* A response: the route, the HTTP status, the statement that threw (if one did)
\* and what the answered operation started from (kept when failures are injected).
NoRes == [ op |-> "none", status |-> 0, at |-> "", before |-> None, nextEligibleDate |-> None ]

\* No read-only storage call has been made on its own.
NoCall == [ fn |-> "none" ]

\* ------------------------------------------------------- storage: reads
\* getDonorByUserId: the first donor row of that user, if any.
getDonorByUserId(userId) ==
  LET ids == { d \in DOMAIN donors : donors[d].userId = userId }
  IN  IF ids = {} THEN None
      ELSE Some(CHOOSE d \in ids : \A e \in ids : d <= e)

getDonor(id) == IF id \in DOMAIN donors THEN Some(id) ELSE None

getBloodRequest(id) == IF id \in DOMAIN bloodRequests THEN Some(id) ELSE None

\* getLastDonation: the donor's donation with the latest donationDate.
getLastDonation(donorId) ==
  LET own == { i \in 1..Len(donations) : donations[i].donorId = donorId }
  IN  IF own = {} THEN None
      ELSE Some(donations[CHOOSE i \in own :
                  \A j \in own : donations[j].donationDate <= donations[i].donationDate])

\* getDonorEligibility, with `new Date()` = today.
getDonorEligibilityAt(donorId, today) ==
  LET lastDonation == getLastDonation(donorId)
      sixMonthsAgo == SetMonth(today, -6)
  IN  IF ~IsSome(lastDonation) THEN [ canDonate |-> TRUE, nextEligibleDate |-> None ]
      ELSE IF Val(lastDonation).donationDate <= sixMonthsAgo
           THEN [ canDonate |-> TRUE, nextEligibleDate |-> None ]
           ELSE [ canDonate |-> FALSE,
                  nextEligibleDate |-> Some(SetMonth(Val(lastDonation).donationDate, 6)) ]

\* Faulty variant: every donor may donate.
getDonorEligibility_Always(donorId) == [ canDonate |-> TRUE, nextEligibleDate |-> None ]

getDonorEligibility(donorId) == getDonorEligibilityAt(donorId, now)

\* ------------------------------------------------------ storage: writes
\* `creditsEarned || 5`: undefined and 0 are both falsy.
EarnedAmount(creditsEarned) ==
  IF IsSome(creditsEarned) /\ Val(creditsEarned) # 0 THEN Val(creditsEarned)
  ELSE 5

\* Faulty variant: the UPDATE credits the policy's 5 instead of the donation's amount.
DonorAfterDonation_Flat5(row, donationDate, earned) ==
  [ row EXCEPT !.totalDonations = @ + 1,
               !.lastDonationDate = Some(donationDate),
               !.credits = @ + 5 ]

\* Faulty variant: the UPDATE writes the counters of a first donation instead of
\* incrementing the stored ones (SET total_donations = 1, credits = :earned).
DonorAfterDonation_Overwrite(row, donationDate, earned) ==
  [ row EXCEPT !.totalDonations = 1,
               !.lastDonationDate = Some(donationDate),
               !.credits = earned ]

\* Faulty variant: the UPDATE leaves totalDonations alone.
DonorAfterDonation_NoCount(row, donationDate, earned) ==
  [ row EXCEPT !.lastDonationDate = Some(donationDate),
               !.credits = @ + earned ]

\* The donor-statistics UPDATE of createDonation / verifyDonation.
DonorAfterDonation(row, donationDate, earned) ==
  [ row EXCEPT !.totalDonations = @ + 1,
               !.lastDonationDate = Some(donationDate),
               !.credits = @ + earned ]

\* The credits UPDATE of spendCredits.
DonorAfterSpend(row, amount) ==
  [ row EXCEPT !.credits = @ - amount ]

\* Faulty variant: the guard tests the donor only, not the balance.
SpendRejected_NoBalanceCheck(donorOpt, amount) == ~IsSome(donorOpt)

\* spendCredits' guard: `!donor || (donor.credits || 0) < amount`.
SpendRejected(donorOpt, amount) ==
  \/ ~IsSome(donorOpt)
  \/ donors[Val(donorOpt)].credits < amount

\* Faulty variant: addCredits also adds the amount to the donor's cached balance.
addCredits_AndBalance(donorId, amount, relatedDonationId) ==
  /\ creditTransactions' =
       Append(creditTransactions,
              [ donorId |-> donorId, transactionType |-> "earned", amount |-> amount,
                relatedDonationId |-> relatedDonationId, relatedRequestId |-> None ])
  /\ donors' = [ donors EXCEPT ![donorId].credits = @ + amount ]

EarnedRow(donorId, amount, relatedDonationId) ==
  [ donorId |-> donorId, transactionType |-> "earned", amount |-> amount,
    relatedDonationId |-> relatedDonationId, relatedRequestId |-> None ]

\* Faulty variant: one 'earned' row per donor, overwritten by the next earning.
addCredits_Upsert(donorId, amount, relatedDonationId) ==
  LET own == { i \in 1..Len(creditTransactions) :
                 /\ creditTransactions[i].donorId = donorId
                 /\ creditTransactions[i].transactionType = "earned" }
  IN  /\ creditTransactions' =
           IF own = {}
           THEN Append(creditTransactions, EarnedRow(donorId, amount, relatedDonationId))
           ELSE [ creditTransactions EXCEPT ![CHOOSE i \in own : TRUE] =
                    EarnedRow(donorId, amount, relatedDonationId) ]
      /\ UNCHANGED donors

\* addCredits: one INSERT into credit_transactions, nothing else.
addCredits(donorId, amount, relatedDonationId) ==
  /\ creditTransactions' =
       Append(creditTransactions, EarnedRow(donorId, amount, relatedDonationId))
  /\ UNCHANGED donors

\* The INSERT of spendCredits.
SpentRow(donorId, amount, relatedRequestId) ==
  [ donorId |-> donorId, transactionType |-> "spent", amount |-> amount,
    relatedDonationId |-> None, relatedRequestId |-> relatedRequestId ]

\* Faulty variant: the UPDATE has no WHERE clause.
updateBloodRequestStatus_AllRows(id, status) ==
  bloodRequests' = [ i \in DOMAIN bloodRequests |-> [ bloodRequests[i] EXCEPT !.status = status ] ]

\* updateBloodRequestStatus: UPDATE ... WHERE id = :id (no row, no effect).
updateBloodRequestStatus(id, status) ==
  bloodRequests' =
    IF id \in DOMAIN bloodRequests
    THEN [ bloodRequests EXCEPT ![id].status = status ]
    ELSE bloodRequests

\* Optional request ids a request body carries.
OptRequestIds == { None, Some(MaxRequests) }

\* ------------------------------------------------------------------ Init
\* The database after u1 and u2 registered as donors, u3 posted a blood request,
\* and u1 recorded one donation (POST /api/donations, 15th of month 12, no
\* creditsEarned in the body).  Donor 2 is newly registered.
FirstDonationDate == MkDate(12, 15)

InitState ==
  /\ donors = (1 :> DonorAfterDonation(NewDonor("u1"), FirstDonationDate, EarnedAmount(None)))
              @@ (2 :> NewDonor("u2"))
  /\ bloodRequests = (1 :> NewBloodRequest("u3"))
  /\ donations = << NewDonationRow(1, 1, None, FirstDonationDate, None) >>
  /\ creditTransactions = << EarnedRow(1, EarnedAmount(None), Some(1)) >>
  /\ clock = 1
  /\ inflight = EmptyBag
  /\ res = NoRes
  /\ nOps = 0
  /\ aborted = {}
  /\ call = NoCall

Init == InitState /\ faults = FALSE

\* ------------------------------------------------------ handler plumbing
Requests == BagToSet(inflight)

\* A request arrives: at most NumProcs are served together.
Start ==
  /\ BagCardinality(inflight) < NumProcs
  /\ nOps < MaxOps
  /\ nOps' = nOps + 1

\* The route answers in the step the request arrived in: it never was in flight.
Answer(op, status) ==
  /\ res' = [ NoRes EXCEPT !.op = op, !.status = status ]
  /\ UNCHANGED inflight

\* POST /api/donations answers 400 "Not eligible to donate yet" with the
\* nextEligibleDate of the eligibility result.
AnswerNotEligible(eligibility) ==
  /\ res' = [ NoRes EXCEPT !.op = "donations", !.status = 400,
                           !.nextEligibleDate = eligibility.nextEligibleDate ]
  /\ UNCHANGED inflight

\* The route goes on to the storage call with locals r.
Launch(r) ==
  /\ inflight' = inflight (+) SetToBag({r})
  /\ UNCHANGED res

\* Request r goes on to statement label with locals r2.
Continue(r, label, r2) ==
  /\ inflight' = (inflight (-) SetToBag({r})) (+) SetToBag({[ r2 EXCEPT !.pc = label ]})
  /\ UNCHANGED res

\* Request r is answered and ends; `at` is the statement that threw, if one did
\* (the route's catch block answers then).
Respond(r, op, status, at) ==
  /\ inflight' = inflight (-) SetToBag({r})
  /\ res' = [ NoRes EXCEPT !.op = op, !.status = status, !.at = at, !.before = r.before ]

\* What a compound operation on donor d starts from: the donations table, the
\* donor's row, and whether it runs alone (nothing else in flight; the count of
\* requests started shows a later start).  Kept when failures are injected.
Snapshot(d) ==
  IF ~faults THEN None
  ELSE Some([ donorId |-> d, donations |-> donations, donor |-> donors[d],
              creditTransactions |-> creditTransactions, bloodRequests |-> bloodRequests,
              nOps |-> nOps + 1, alone |-> inflight = EmptyBag ])

\* ------------------------------------------------- POST /api/donations
PostDonations ==
  /\ Start
  /\ \E u \in Users :
       LET donor == getDonorByUserId(u)
       IN  IF ~IsSome(donor) THEN Answer("donations", 404)
           ELSE IF ~getDonorEligibility(Val(donor)).canDonate
                THEN AnswerNotEligible(getDonorEligibility(Val(donor)))
           ELSE \E date \in DateInputs, ce \in CreditsEarnedInputs, rq \in OptRequestIds :
                  Launch([ NoReq EXCEPT !.pc = "createDonation_insert", !.userId = u,
                                        !.donorId = Val(donor), !.requestId = rq,
                                        !.donationDate = date, !.creditsEarned = ce,
                                        !.before = Snapshot(Val(donor)) ])
  /\ UNCHANGED << db, clock, aborted, faults, call >>

\* createDonation, statement 1: INSERT INTO donations (the request_id foreign key
\* rejects a request that does not exist; the route's catch answers 400).
createDonation_insert(r) ==
  /\ r.pc = "createDonation_insert"
  /\ IF IsSome(r.requestId) /\ Val(r.requestId) \notin DOMAIN bloodRequests
     THEN /\ Respond(r, "donations", 400, "createDonation_insert")
          /\ UNCHANGED donations
     ELSE /\ donations' = Append(donations,
               NewDonationRow(Len(donations) + 1, r.donorId, r.requestId,
                              r.donationDate, r.creditsEarned))
          /\ Continue(r, "createDonation_update", [ r EXCEPT !.newDonation = Len(donations) + 1 ])
  /\ UNCHANGED << donors, bloodRequests, creditTransactions, clock, nOps, aborted, faults, call >>

\* createDonation, statement 2: UPDATE donors SET totalDonations, lastDonationDate, credits.
createDonation_update(r) ==
  /\ r.pc = "createDonation_update"
  /\ donors' = [ donors EXCEPT ![r.donorId] =
       DonorAfterDonation(@, r.donationDate, EarnedAmount(r.creditsEarned)) ]
  /\ Continue(r, "createDonation_addCredits", r)
  /\ UNCHANGED << bloodRequests, donations, creditTransactions, clock, nOps, aborted, faults, call >>

\* createDonation, statement 3: addCredits, then the route answers with the donation.
createDonation_addCredits(r) ==
  /\ r.pc = "createDonation_addCredits"
  /\ addCredits(r.donorId, EarnedAmount(r.creditsEarned), Some(r.newDonation))
  /\ Respond(r, "donations", 200, "")
  /\ UNCHANGED << bloodRequests, donations, clock, nOps, aborted, faults, call >>

\* Faulty variant: any authenticated user passes the owner check.
IsRequester_Anyone(id, u) == TRUE

\* The owner check of the verify and status routes: `request.requesterId !== userId`
\* refuses.
IsRequester(id, u) == bloodRequests[id].requesterId = u

\* -------------------------------------------- POST /api/requests/:id/verify
PostRequestsVerify ==
  /\ Start
  /\ \E u \in Users, id \in RequestIdInputs :
       IF ~IsSome(getBloodRequest(id)) \/ ~IsRequester(id, u)
       THEN Answer("verify", 403)
       ELSE \E donorId \in DonorIds :
              IF ~IsSome(getDonor(donorId)) THEN Answer("verify", 404)
              ELSE \E date \in { None } \cup { Some(t) : t \in DateInputs },
                      ce \in CreditsEarnedInputs :
                     Launch([ NoReq EXCEPT
                       !.pc = "verifyDonation_insert", !.userId = u, !.donorId = donorId,
                       !.requestId = Some(id),
                       !.donationDate = IF IsSome(date) THEN Val(date) ELSE now,
                       !.creditsEarned = Some(EarnedAmount(ce)),
                       !.before = Snapshot(donorId) ])
  /\ UNCHANGED << db, clock, aborted, faults, call >>

\* verifyDonation, statement 1: INSERT INTO donations.
verifyDonation_insert(r) ==
  /\ r.pc = "verifyDonation_insert"
  /\ donations' = Append(donations,
       NewDonationRow(Len(donations) + 1, r.donorId, r.requestId,
                      r.donationDate, r.creditsEarned))
  /\ Continue(r, "verifyDonation_update", [ r EXCEPT !.newDonation = Len(donations) + 1 ])
  /\ UNCHANGED << donors, bloodRequests, creditTransactions, clock, nOps, aborted, faults, call >>

\* The row verifyDonation's INSERT returned.
NewDonationOf(r) == donations[r.newDonation]

\* verifyDonation, statement 2: UPDATE donors, from the returned row.
verifyDonation_update(r) ==
  /\ r.pc = "verifyDonation_update"
  /\ donors' = [ donors EXCEPT ![r.donorId] =
       DonorAfterDonation(@, NewDonationOf(r).donationDate,
                          EarnedAmount(Some(NewDonationOf(r).creditsEarned))) ]
  /\ Continue(r, "verifyDonation_addCredits", r)
  /\ UNCHANGED << bloodRequests, donations, creditTransactions, clock, nOps, aborted, faults, call >>

\* verifyDonation, statement 3: addCredits.
verifyDonation_addCredits(r) ==
  /\ r.pc = "verifyDonation_addCredits"
  /\ addCredits(r.donorId, EarnedAmount(Some(NewDonationOf(r).creditsEarned)),
                Some(r.newDonation))
  /\ Continue(r, "verifyDonation_status", r)
  /\ UNCHANGED << bloodRequests, donations, clock, nOps, aborted, faults, call >>

\* verifyDonation, statement 4: updateBloodRequestStatus(requestId, "fulfilled"),
\* then the route answers with the donation.
verifyDonation_status(r) ==
  /\ r.pc = "verifyDonation_status"
  /\ updateBloodRequestStatus(Val(r.requestId), "fulfilled")
  /\ Respond(r, "verify", 200, "")
  /\ UNCHANGED << donors, donations, creditTransactions, clock, nOps, aborted, faults, call >>

\* ------------------------------------------------- POST /api/credits/spend
\* The route's donor lookup and spendCredits' read and guard.
PostCreditsSpend ==
  /\ Start
  /\ \E u \in Users :
       LET donor == getDonorByUserId(u)
       IN  IF ~IsSome(donor) THEN Answer("spend", 404)
           ELSE \E amount \in SpendAmounts :
                  IF SpendRejected(getDonor(Val(donor)), amount) THEN Answer("spend", 400)
                  ELSE \E rq \in OptRequestIds :
                         Launch([ NoReq EXCEPT !.pc = "spendCredits_update", !.userId = u,
                                               !.donorId = Val(donor), !.amount = amount,
                                               !.requestId = rq ])
  /\ UNCHANGED << db, clock, aborted, faults, call >>

\* spendCredits, statement 2: UPDATE donors SET credits = credits - amount.
spendCredits_update(r) ==
  /\ r.pc = "spendCredits_update"
  /\ donors' = [ donors EXCEPT ![r.donorId] = DonorAfterSpend(@, r.amount) ]
  /\ Continue(r, "spendCredits_insert", r)
  /\ UNCHANGED << bloodRequests, donations, creditTransactions, clock, nOps, aborted, faults, call >>

\* spendCredits, statement 3: INSERT INTO credit_transactions (the
\* related_request_id foreign key rejects a request that does not exist: the
\* statement throws after the UPDATE and the route's catch answers 500).
spendCredits_insert(r) ==
  /\ r.pc = "spendCredits_insert"
  /\ IF IsSome(r.requestId) /\ Val(r.requestId) \notin DOMAIN bloodRequests
     THEN /\ Respond(r, "spend", 500, "spendCredits_insert")
          /\ aborted' = aborted \cup { r.donorId }
          /\ UNCHANGED creditTransactions
     ELSE /\ creditTransactions' = Append(creditTransactions,
               SpentRow(r.donorId, r.amount, r.requestId))
          /\ Respond(r, "spend", 200, "")
          /\ UNCHANGED aborted
  /\ UNCHANGED << donors, bloodRequests, donations, clock, nOps, faults, call >>

\* --------------------------------------- PUT /api/blood-requests/:id/status
\* The status whitelist of the route.
ValidStatus(status) == status \in {"active", "fulfilled", "cancelled"}

PutBloodRequestStatus ==
  /\ Start
  /\ \E status \in StatusInputs :
       IF ~ValidStatus(status) THEN Answer("status", 400)
       ELSE \E id \in RequestIdInputs :
              IF ~IsSome(getBloodRequest(id)) THEN Answer("status", 404)
              ELSE \E u \in Users :
                     IF ~IsRequester(id, u) THEN Answer("status", 403)
                     ELSE Launch([ NoReq EXCEPT !.pc = "updateStatus", !.userId = u,
                                                !.requestId = Some(id), !.status = status ])
  /\ UNCHANGED << db, clock, aborted, faults, call >>

PutBloodRequestStatus_update(r) ==
  /\ r.pc = "updateStatus"
  /\ updateBloodRequestStatus(Val(r.requestId), r.status)
  /\ Respond(r, "status", 200, "")
  /\ UNCHANGED << donors, donations, creditTransactions, clock, nOps, aborted, faults, call >>

\* ------------------------------------------------ POST /api/blood-requests
\* insertBloodRequestSchema omits status: the row gets the column default.
PostBloodRequests ==
  /\ Start
  /\ Cardinality(DOMAIN bloodRequests) < MaxRequests
  /\ \E u \in Users :
       /\ bloodRequests' = bloodRequests @@
            ((Cardinality(DOMAIN bloodRequests) + 1) :> NewBloodRequest(u))
       /\ Answer("blood-requests", 200)
  /\ UNCHANGED << donors, donations, creditTransactions, clock, aborted, faults, call >>

\* The server's clock moves on.
Tick ==
  /\ clock < Len(TimePoints)
  /\ clock' = clock + 1
  /\ UNCHANGED << db, inflight, res, nOps, aborted, faults, call >>

\* ------------------------------------------------------------------ Next
Next ==
  \/ PostDonations
  \/ PostRequestsVerify
  \/ PostCreditsSpend
  \/ PutBloodRequestStatus
  \/ PostBloodRequests
  \/ \E r \in Requests : createDonation_insert(r)
  \/ \E r \in Requests : createDonation_update(r)
  \/ \E r \in Requests : createDonation_addCredits(r)
  \/ \E r \in Requests : verifyDonation_insert(r)
  \/ \E r \in Requests : verifyDonation_update(r)
  \/ \E r \in Requests : verifyDonation_addCredits(r)
  \/ \E r \in Requests : verifyDonation_status(r)
  \/ \E r \in Requests : spendCredits_update(r)
  \/ \E r \in Requests : spendCredits_insert(r)
  \/ \E r \in Requests : PutBloodRequestStatus_update(r)
  \/ Tick

Spec == Init /\ [][Next]_vars

\* ------------------------------------------- persistence failure injected
\* createDonation's addCredits INSERT throws: nothing is rolled back (there is no
\* transaction around the three statements) and the route's catch answers 400.
createDonation_addCreditsFails(r) ==
  /\ faults
  /\ r.pc = "createDonation_addCredits"
  /\ Respond(r, "donations", 400, "createDonation_addCredits")
  /\ aborted' = aborted \cup { r.donorId }
  /\ UNCHANGED << db, clock, nOps, faults, call >>

\* A statement of verifyDonation after its INSERT INTO donations throws (the donor
\* UPDATE, the addCredits INSERT or the status UPDATE): nothing is rolled back
\* and the route's catch answers 400.
verifyDonation_Fails(r) ==
  /\ faults
  /\ r.pc \in { "verifyDonation_update", "verifyDonation_addCredits", "verifyDonation_status" }
  /\ Respond(r, "verify", 400, r.pc)
  /\ aborted' = aborted \cup { r.donorId }
  /\ UNCHANGED << db, clock, nOps, faults, call >>

NextFault ==
  \/ Next
  \/ \E r \in Requests : createDonation_addCreditsFails(r)
  \/ \E r \in Requests : verifyDonation_Fails(r)

InitFault == InitState /\ faults = TRUE

SpecFault == InitFault /\ [][NextFault]_vars

\* ------------------------------------------ getDonorEligibility on its own
\* The eligibility function applied to donation histories and clock readings that
\* include the ends of months (month 12 is a January, 13 a February, 19 an August).
EligibilityDonationDates ==
  { MkDate(7, 31), MkDate(12, 15), MkDate(12, 16), MkDate(13, 28), MkDate(14, 1) }
EligibilityToday == { MkDate(12, 15), MkDate(18, 15), MkDate(19, 31) }

\* Donation histories: who donated and on which date, in the order recorded.
MaxHistory == 2
DonationHistories ==
  UNION { [ 1..n -> [ donorId : {1, 2}, donationDate : EligibilityDonationDates ] ] :
          n \in 0..MaxHistory }

\* The database after the donations of history h were recorded by verifications
\* (the verify route checks no eligibility and takes any date), no creditsEarned given.
DonorAfterHistory(d, userId, h) ==
  LET own == { i \in 1..Len(h) : h[i].donorId = d }
  IN  [ NewDonor(userId) EXCEPT
        !.lastDonationDate = IF own = {} THEN None
                             ELSE Some(h[CHOOSE i \in own : \A j \in own : j <= i].donationDate),
        !.credits = DefaultCreditsEarned * Cardinality(own),
        !.totalDonations = Cardinality(own) ]

InitEligibility ==
  \E h \in DonationHistories :
    /\ donors = (1 :> DonorAfterHistory(1, "u1", h)) @@ (2 :> DonorAfterHistory(2, "u2", h))
    /\ bloodRequests = (1 :> [ NewBloodRequest("u3") EXCEPT
                                !.status = IF Len(h) > 0 THEN "fulfilled" ELSE @ ])
    /\ donations = [ i \in 1..Len(h) |->
                       NewDonationRow(i, h[i].donorId, Some(1), h[i].donationDate, None) ]
    /\ creditTransactions = [ i \in 1..Len(h) |->
                       EarnedRow(h[i].donorId, EarnedAmount(None), Some(i)) ]
    /\ clock = 1
    /\ inflight = EmptyBag
    /\ res = NoRes
    /\ nOps = 0
    /\ aborted = {}
    /\ faults = FALSE
    /\ call = NoCall

\* storage.getDonorEligibility(donorId) is called when the clock reads today.
CallGetDonorEligibility ==
  /\ \E d \in DOMAIN donors, today \in EligibilityToday :
       call' = [ fn |-> "getDonorEligibility", donorId |-> d, today |-> today,
                 ret |-> getDonorEligibilityAt(d, today) ]
  /\ UNCHANGED << db, clock, inflight, res, nOps, aborted, faults >>

NextEligibility == CallGetDonorEligibility

SpecEligibility == InitEligibility /\ [][NextEligibility]_vars

\* ------------------------------------------------- GET /api/donors/search
\* The great-circle distance in km, 6371 * acos(cos cos cos + sin sin), between two
\* positions; the positions used lie on the two axes through the reference point.
Abs(x) == IF x < 0 THEN -x ELSE x
Distance(lat1, lon1, lat2, lon2) == Abs(lat1 - lat2) + Abs(lon1 - lon2)

\* The positions at which, in double arithmetic, cos^2 + sin^2 of the latitude
\* rounds to 1.0000000000000002 (true of about 4% of all latitudes).
RoundsAboveOne == { << 40, 0 >> }

\* acos raises "input is out of range": its argument, the cosine of the angle
\* between the search point and a donor at that very point, has rounded above 1.
AcosOutOfRange(lat1, lon1, lat2, lon2) ==
  /\ lat1 = lat2 /\ lon1 = lon2
  /\ << lat1, lon1 >> \in RoundsAboveOne

\* `bloodGroup ? eq(donors.bloodGroup, bloodGroup) : undefined`: an absent or
\* empty bloodGroup adds no condition.
BloodGroupGiven(bloodGroup) == IsSome(bloodGroup) /\ Val(bloodGroup) # ""

\* The rows that pass the conditions on isAvailable and bloodGroup.
Candidates(bloodGroup) ==
  { d \in DOMAIN donors :
      /\ donors[d].isAvailable
      /\ BloodGroupGiven(bloodGroup) => donors[d].bloodGroup = Val(bloodGroup) }

\* The query fails when the distance expression raises for one of those rows.
findNearbyDonorsThrows(latitude, longitude, radiusKm, bloodGroup) ==
  \E d \in Candidates(bloodGroup) :
    AcosOutOfRange(latitude, longitude, donors[d].latitude, donors[d].longitude)

\* Faulty variant: no ORDER BY, the rows come in any order.
findNearbyDonors_Unordered(latitude, longitude, radiusKm, bloodGroup) ==
  LET dist(d) == Distance(latitude, longitude, donors[d].latitude, donors[d].longitude)
      rows == { d \in Candidates(bloodGroup) : dist(d) <= radiusKm }
  IN  { l \in [ 1..Cardinality(rows) -> rows ] :
          \A i, j \in 1..Cardinality(rows) : i # j => l[i] # l[j] }

\* findNearbyDonors: the lists the SELECT ... WHERE ... ORDER BY distance can
\* return (rows at the same distance come in either order).
findNearbyDonors(latitude, longitude, radiusKm, bloodGroup) ==
  LET dist(d) == Distance(latitude, longitude, donors[d].latitude, donors[d].longitude)
      rows == { d \in Candidates(bloodGroup) : dist(d) <= radiusKm }
  IN  { l \in [ 1..Cardinality(rows) -> rows ] :
          /\ \A i, j \in 1..Cardinality(rows) : i # j => l[i] # l[j]
          /\ \A i, j \in 1..Cardinality(rows) : i < j => dist(l[i]) <= dist(l[j]) }

\* Query parameters of a search request (None: the parameter is absent).
LatitudeInputs == { None, Some(0), Some(40) }
LongitudeInputs == { None, Some(0) }
RadiusInputs == { None, Some(-1), Some(0), Some(5), Some(6) }
BloodGroupInputs == { None, Some(""), Some("O+"), Some("X") }

\* `!latitude || !longitude`
\* Faulty variant: only the latitude is required.
CoordinatesMissing_LatitudeOnly(latitude, longitude) == ~IsSome(latitude)

CoordinatesMissing(latitude, longitude) == ~IsSome(latitude) \/ ~IsSome(longitude)

\* `radius = 5` in the destructuring of req.query.
DefaultRadius == 5

\* The donors tables searched: up to MaxDonors donors, each available or not, of
\* group O+ or A-, at 0, 5, 6 or 40 km north of the reference point.
MaxDonors == 2
DonorLatitudes == { 0, 5, 6, 40 }
DonorBloodGroups == { "O+", "A-" }
SearchedDonorRows(userId) ==
  { [ NewDonor(userId) EXCEPT !.isAvailable = a, !.bloodGroup = g, !.latitude = lat ] :
      a \in BOOLEAN, g \in DonorBloodGroups, lat \in DonorLatitudes }
UserOfDonor(d) == IF d = 1 THEN "u1" ELSE IF d = 2 THEN "u2" ELSE "u3"

InitSearch ==
  /\ \E n \in 0..MaxDonors :
       donors \in { t \in [ 1..n -> UNION { SearchedDonorRows(u) : u \in Users } ] :
                      \A d \in 1..n : t[d].userId = UserOfDonor(d) }
  /\ bloodRequests = << >>
  /\ donations = << >>
  /\ creditTransactions = << >>
  /\ clock = 1
  /\ inflight = EmptyBag
  /\ res = NoRes
  /\ nOps = 0
  /\ aborted = {}
  /\ faults = FALSE
  /\ call = NoCall

\* What a search request was asked and what it was answered: queried tells
\* whether findNearbyDonors was called, ret is the list in the answer.
SearchCall(latitude, longitude, radius, bloodGroup, status, queried, ret) ==
  [ fn |-> "search", latitude |-> latitude, longitude |-> longitude, radius |-> radius,
    bloodGroup |-> bloodGroup, status |-> status, queried |-> queried, ret |-> ret ]

\* parseFloat of a query parameter: the number it spells, NaN (here None) when the
\* parameter is absent.
ParseFloat(param) == param
IsNaN(x) == ~IsSome(x)

\* One search is followed per behaviour: a search leaves nothing behind that a
\* later one could read.
GetDonorsSearch ==
  /\ call = NoCall
  /\ \E latitude \in LatitudeInputs, longitude \in LongitudeInputs,
        radius \in RadiusInputs, bloodGroup \in BloodGroupInputs :
       IF CoordinatesMissing(latitude, longitude)
       THEN call' = SearchCall(latitude, longitude, radius, bloodGroup, 400, FALSE, << >>)
       ELSE IF IsNaN(ParseFloat(latitude)) \/ IsNaN(ParseFloat(longitude))
       THEN \* every comparison of a NaN distance with the radius is false: no row
            call' = SearchCall(latitude, longitude, radius, bloodGroup, 200, TRUE, << >>)
       ELSE LET radiusKm == IF IsSome(radius) THEN Val(radius) ELSE DefaultRadius
            IN  IF findNearbyDonorsThrows(Val(latitude), Val(longitude), radiusKm, bloodGroup)
                THEN call' = SearchCall(latitude, longitude, radius, bloodGroup,
                                        500, TRUE, << >>)
                ELSE \E list \in findNearbyDonors(Val(latitude), Val(longitude),
                                                  radiusKm, bloodGroup) :
                       call' = SearchCall(latitude, longitude, radius, bloodGroup,
                                          200, TRUE, list)
  /\ UNCHANGED << db, clock, inflight, res, nOps, aborted, faults >>

NextSearch == GetDonorsSearch

SpecSearch == InitSearch /\ [][NextSearch]_vars

\* --------------------------------------------------- donor profile routes
\* Request bodies of POST /api/donors and PUT /api/donors/me: the fields a client
\* can send, each present or absent (the other required fields go with weight).
ProfileBodies ==
  [ bloodGroup : { None, Some("A-") },
    weight : { None, Some(70), Some(20) },
    lastDonationDate : { None, Some(MkDate(6, 15)) },
    credits : { None, Some(100) },
    totalDonations : { None, Some(7) } ]

\* insertDonorSchema accepts the body: the required fields are there (all of them
\* optional under .partial()) and weight is within 30..200.
insertDonorSchemaAccepts(body, partial) ==
  /\ partial \/ (IsSome(body.bloodGroup) /\ IsSome(body.weight))
  /\ IsSome(body.weight) => Val(body.weight) \in 30..200

\* Faulty variant: the schema does not omit credits and totalDonations.
insertDonorSchema_KeepsCounters(body) ==
  [ bloodGroup |-> body.bloodGroup, lastDonationDate |-> body.lastDonationDate,
    credits |-> body.credits, totalDonations |-> body.totalDonations ]

\* insertDonorSchema.parse: the columns of the body that the schema knows; id,
\* credits and totalDonations are omitted from it and stripped as unknown keys.
insertDonorSchema(body) ==
  [ bloodGroup |-> body.bloodGroup, lastDonationDate |-> body.lastDonationDate ]

\* A donor row with the columns given in data set to their values.
SetColumns(row, data) ==
  [ f \in DOMAIN row |->
      IF f \in DOMAIN data /\ IsSome(data[f])
      THEN IF f = "lastDonationDate" THEN data[f] ELSE Val(data[f])
      ELSE row[f] ]

\* createDonor: INSERT INTO donors; the columns not given get their defaults.
createDonor(userId, donorData) ==
  donors' = donors @@
    ((Cardinality(DOMAIN donors) + 1) :> SetColumns(NewDonor(userId), donorData))

\* updateDonor: UPDATE donors SET <the columns given> WHERE id = :id.
updateDonor(id, updates) ==
  donors' = [ donors EXCEPT ![id] = SetColumns(@, updates) ]

\* POST /api/donors: parse the body, look the user's donor up, then createDonor.
PostDonors ==
  /\ Start
  /\ \E u \in Users, body \in ProfileBodies :
       IF ~insertDonorSchemaAccepts(body, FALSE) THEN Answer("donors", 400)
       ELSE IF IsSome(getDonorByUserId(u)) THEN Answer("donors", 400)
       ELSE Launch([ NoReq EXCEPT !.pc = "createDonor", !.userId = u,
                                  !.donorData = Some(insertDonorSchema(body)) ])
  /\ UNCHANGED << db, clock, aborted, faults, call >>

PostDonors_createDonor(r) ==
  /\ r.pc = "createDonor"
  /\ createDonor(r.userId, Val(r.donorData))
  /\ Respond(r, "donors", 200, "")
  /\ UNCHANGED << bloodRequests, donations, creditTransactions, clock, nOps, aborted, faults, call >>

\* PUT /api/donors/me: look the user's donor up, parse the body, then updateDonor.
PutDonorsMe ==
  /\ Start
  /\ \E u \in Users :
       LET donor == getDonorByUserId(u)
       IN  IF ~IsSome(donor) THEN Answer("donors/me", 404)
           ELSE \E body \in ProfileBodies :
                  IF ~insertDonorSchemaAccepts(body, TRUE) THEN Answer("donors/me", 400)
                  ELSE Launch([ NoReq EXCEPT !.pc = "updateDonor", !.userId = u,
                                             !.donorId = Val(donor),
                                             !.donorData = Some(insertDonorSchema(body)) ])
  /\ UNCHANGED << db, clock, aborted, faults, call >>

PutDonorsMe_updateDonor(r) ==
  /\ r.pc = "updateDonor"
  /\ updateDonor(r.donorId, Val(r.donorData))
  /\ Respond(r, "donors/me", 200, "")
  /\ UNCHANGED << bloodRequests, donations, creditTransactions, clock, nOps, aborted, faults, call >>

NextProfile ==
  \/ PostDonors
  \/ PutDonorsMe
  \/ \E r \in Requests : PostDonors_createDonor(r)
  \/ \E r \in Requests : PutDonorsMe_updateDonor(r)

\* The profile routes on the database of InitState: u1 and u2 are donors, u3 is not.
InitProfile == InitState /\ faults = FALSE

SpecProfile == InitProfile /\ [][NextProfile]_vars

\* ====================================================================
\* Properties
\* ====================================================================

\* The sum of the amounts of donor d's transactions of one type, over the first n rows.
RECURSIVE SumAmounts(_, _, _)
SumAmounts(d, type, n) ==
  IF n = 0 THEN 0
  ELSE SumAmounts(d, type, n - 1)
       + (IF creditTransactions[n].donorId = d /\ creditTransactions[n].transactionType = type
          THEN creditTransactions[n].amount ELSE 0)

LedgerBalance(d) ==
  SumAmounts(d, "earned", Len(creditTransactions))
  - SumAmounts(d, "spent", Len(creditTransactions))

\* An operation on donor d is in flight.
InFlightOn(d) == \E r \in Requests : r.donorId = d

\* Steps, seen from outside: a request arrives; request r is launched (arrives and
\* goes on to the storage call); request r executes its statement.
Arrives == nOps' = nOps + 1
Launched(r) == Arrives /\ CopiesIn(r, inflight') > CopiesIn(r, inflight)
Executes(r) == CopiesIn(r, inflight') < CopiesIn(r, inflight)

\* C1: for every donor none of whose operations is in flight or ended by throwing
\* after a write, the cached credits equal the sum of the donor's 'earned'
\* transactions minus the sum of its 'spent' transactions.
C1_LedgerInvariant ==
  \A d \in DOMAIN donors :
    (~InFlightOn(d) /\ d \notin aborted) => donors[d].credits = LedgerBalance(d)

\* C1 witness: nothing in flight, and a donor whose operations all completed has
\* earned twice and spent.
C1_Witness ==
  /\ inflight = EmptyBag
  /\ \E d \in DOMAIN donors \ aborted :
       /\ SumAmounts(d, "spent", Len(creditTransactions)) > 0
       /\ donors[d].credits = 2

\* C3: no donor's cached credit balance is ever negative.
C3_NonNegativeBalance ==
  \A d \in DOMAIN donors : donors[d].credits >= 0

\* C2: a spend request whose amount exceeds the donor's cached balance (as
\* spendCredits reads it) never gets past the guard, and the request the route
\* answers on arrival (400 Insufficient credits, or 404) changes neither any balance
\* nor the transaction log.
C2_SpendRejection ==
  [][ /\ \A r \in BagToSet(inflight') :
           (Launched(r) /\ r.pc = "spendCredits_update")
             => r.amount <= donors[r.donorId].credits
      /\ (Arrives /\ inflight' = inflight /\ res'.op = "spend")
           => /\ res'.status \in {400, 404}
              /\ donors' = donors
              /\ creditTransactions' = creditTransactions ]_vars

\* C2 witness: a donor with a positive balance was just refused a spend.
C2_Witness ==
  /\ res.op = "spend" /\ res.status = 400
  /\ donors[1].credits = 2
  /\ inflight = EmptyBag

\* C4: a spend request for an existing donor with amount <= the cached balance
\* passes the guard, its UPDATE lowers that donor's balance by exactly amount and
\* changes nothing else, and its INSERT appends exactly one 'spent' transaction
\* with that donor and amount and answers success (spendCredits returned true).
C4_SpendSuccess ==
  [][ \A r \in Requests :
           /\ (Executes(r) /\ r.pc = "spendCredits_update")
                => /\ donors' = [ donors EXCEPT ![r.donorId].credits = @ - r.amount ]
                   /\ creditTransactions' = creditTransactions
           /\ (Executes(r) /\ r.pc = "spendCredits_insert")
                => /\ creditTransactions' = Append(creditTransactions,
                         [ donorId |-> r.donorId, transactionType |-> "spent",
                           amount |-> r.amount, relatedDonationId |-> None,
                           relatedRequestId |-> r.requestId ])
                   /\ donors' = donors
                   /\ res'.op = "spend" /\ res'.status = 200 ]_vars

\* The statements of createDonation / verifyDonation that call addCredits.
IsAddCredits(r) == r.pc \in { "createDonation_addCredits", "verifyDonation_addCredits" }

\* The amount the caller hands to addCredits: `donation.creditsEarned || 5`.
AmountPassed(r) ==
  LET ce == IF r.pc = "createDonation_addCredits" THEN r.creditsEarned
            ELSE Some(donations[r.newDonation].creditsEarned)
  IN  IF ce = None \/ Val(ce) = 0 THEN 5 ELSE Val(ce)

\* The last row of the transaction log.
LastTransaction(log) == log[Len(log)]

\* C5 (as stated): every addCredits call appends one 'earned' transaction for the
\* donor and raises the donor's cached balance by the amount.
C5_EarnRaisesBalance ==
  [][ \A r \in Requests :
        (Executes(r) /\ IsAddCredits(r))
          => /\ Len(creditTransactions') = Len(creditTransactions) + 1
             /\ LastTransaction(creditTransactions').transactionType = "earned"
             /\ donors'[r.donorId].credits = donors[r.donorId].credits + AmountPassed(r) ]_vars

\* C5 (amended): every addCredits call appends exactly one 'earned' transaction
\* carrying the donor, the amount and the related donation id it was given, keeps
\* the rest of the log, and leaves every donor row (the cached balance included)
\* unchanged; it has no rejecting branch (the step is always enabled).
C5_EarnContract ==
  [][ \A r \in Requests :
        (Executes(r) /\ IsAddCredits(r))
          => /\ creditTransactions' = Append(creditTransactions,
                   [ donorId |-> r.donorId, transactionType |-> "earned",
                     amount |-> AmountPassed(r),
                     relatedDonationId |-> Some(r.newDonation),
                     relatedRequestId |-> None ])
             /\ donors' = donors ]_vars

\* C5 witness: an addCredits call has logged 3 credits for the new donation 2 of
\* the second donor, whose balance the preceding UPDATE had already raised.
C5_Witness ==
  /\ Len(creditTransactions) = 2
  /\ creditTransactions[2] = [ donorId |-> 2, transactionType |-> "earned", amount |-> 3,
                               relatedDonationId |-> Some(2), relatedRequestId |-> None ]
  /\ donors[2].credits = 3
  /\ res.status = 200

\* C6: every createDonation that runs to completion inserts one donation row for
\* the donor, raises totalDonations by 1, sets lastDonationDate to the row's date,
\* raises the cached balance by the row's creditsEarned, and appends one 'earned'
\* transaction of that same amount linked to the new row.
C6_RecordDonation ==
  [][ \A r \in Requests :
        /\ (Executes(r) /\ r.pc = "createDonation_insert" /\ donations' # donations)
             => /\ Len(donations') = Len(donations) + 1
                /\ SubSeq(donations', 1, Len(donations)) = donations
                /\ donations'[Len(donations')].donorId = r.donorId
                /\ donations'[Len(donations')].donationDate = r.donationDate
                /\ donations'[Len(donations')].creditsEarned =
                     (IF r.creditsEarned = None THEN 5 ELSE Val(r.creditsEarned))
        /\ (Executes(r) /\ r.pc = "createDonation_update")
             => donors' = [ donors EXCEPT ![r.donorId] =
                  [ @ EXCEPT !.totalDonations = @ + 1,
                             !.lastDonationDate = Some(donations[r.newDonation].donationDate),
                             !.credits = @ + donations[r.newDonation].creditsEarned ] ]
        /\ (Executes(r) /\ r.pc = "createDonation_addCredits")
             => /\ creditTransactions' = Append(creditTransactions,
                      [ donorId |-> r.donorId, transactionType |-> "earned",
                        amount |-> donations[r.newDonation].creditsEarned,
                        relatedDonationId |-> Some(r.newDonation),
                        relatedRequestId |-> None ])
                /\ res'.op = "donations" /\ res'.status = 200 ]_vars

\* C7: when the addCredits step of a createDonation that ran alone (nothing else
\* in flight at its start, nothing started since) has thrown, the donations table
\* and the donor's row (totalDonations, lastDonationDate, credits) are what they
\* were before the operation.
C7_RecordDonationAtomic ==
  (/\ res.at = "createDonation_addCredits"
   /\ IsSome(res.before)
   /\ Val(res.before).alone
   /\ Val(res.before).nOps = nOps)
    => /\ donations = Val(res.before).donations
       /\ donors[Val(res.before).donorId] = Val(res.before).donor

\* C8: a verify request is let through to verifyDonation only for a request that
\* exists and is 'active'; a verify request the route refuses changes no table.
C8_VerifyRequiresActive ==
  [][ /\ \A r \in BagToSet(inflight') :
           (Launched(r) /\ r.pc = "verifyDonation_insert")
             => /\ Val(r.requestId) \in DOMAIN bloodRequests
                /\ bloodRequests[Val(r.requestId)].status = "active"
      /\ (Arrives /\ inflight' = inflight /\ res'.op = "verify")
           => /\ res'.status \in {403, 404}
              /\ db' = db ]_vars

\* C9: each statement of verifyDonation has the effect of the matching statement
\* of record donation (a donation row for the donor, request and date; the donor's
\* totalDonations + 1, lastDonationDate = the row's date, credits + the row's
\* creditsEarned; one 'earned' transaction of that amount linked to the row), and
\* its last statement sets the verified request to 'fulfilled', leaves every other
\* blood request as it was, and answers success.
C9_VerifySideEffects ==
  [][ \A r \in Requests :
        /\ (Executes(r) /\ r.pc = "verifyDonation_insert")
             => /\ Len(donations') = Len(donations) + 1
                /\ SubSeq(donations', 1, Len(donations)) = donations
                /\ donations'[Len(donations')].donorId = r.donorId
                /\ donations'[Len(donations')].requestId = r.requestId
                /\ donations'[Len(donations')].donationDate = r.donationDate
                /\ UNCHANGED << donors, creditTransactions, bloodRequests >>
        /\ (Executes(r) /\ r.pc = "verifyDonation_update")
             => /\ donors' = [ donors EXCEPT ![r.donorId] =
                     [ @ EXCEPT !.totalDonations = @ + 1,
                                !.lastDonationDate = Some(donations[r.newDonation].donationDate),
                                !.credits = @ + donations[r.newDonation].creditsEarned ] ]
                /\ UNCHANGED << donations, creditTransactions, bloodRequests >>
        /\ (Executes(r) /\ r.pc = "verifyDonation_addCredits")
             => /\ creditTransactions' = Append(creditTransactions,
                      [ donorId |-> r.donorId, transactionType |-> "earned",
                        amount |-> donations[r.newDonation].creditsEarned,
                        relatedDonationId |-> Some(r.newDonation),
                        relatedRequestId |-> None ])
                /\ UNCHANGED << donors, donations, bloodRequests >>
        /\ (Executes(r) /\ r.pc = "verifyDonation_status")
             => /\ DOMAIN bloodRequests' = DOMAIN bloodRequests
                /\ bloodRequests'[Val(r.requestId)].status = "fulfilled"
                /\ bloodRequests'[Val(r.requestId)].requesterId =
                     bloodRequests[Val(r.requestId)].requesterId
                /\ \A id \in DOMAIN bloodRequests \ { Val(r.requestId) } :
                     bloodRequests'[id] = bloodRequests[id]
                /\ UNCHANGED << donors, donations, creditTransactions >>
                /\ res'.op = "verify" /\ res'.status = 200 ]_vars

\* C9 witness: a verification of request 1 has completed (donation 2 is linked to
\* it, request 1 is fulfilled) while request 2 is still active.
C9_Witness ==
  /\ res.op = "verify" /\ res.status = 200
  /\ Len(donations) = 2 /\ donations[2].requestId = Some(1)
  /\ Len(bloodRequests) = 2
  /\ bloodRequests[1].status = "fulfilled"
  /\ bloodRequests[2].status = "active"

\* C10: a blood request is created 'active', the only status changes are
\* active -> fulfilled and active -> cancelled, and a 'fulfilled' or 'cancelled'
\* request keeps its status in every step.
C10_StatusOneWay ==
  [][ /\ \A id \in DOMAIN bloodRequests' \ DOMAIN bloodRequests :
           bloodRequests'[id].status = "active"
      /\ \A id \in DOMAIN bloodRequests :
           bloodRequests'[id].status # bloodRequests[id].status
             => /\ bloodRequests[id].status = "active"
                /\ bloodRequests'[id].status \in { "fulfilled", "cancelled" } ]_vars

\* Calendar arithmetic on dates: n months later (n < 0: earlier), the day of month
\* kept, or the last day of the target month when that month is shorter.
AddMonths(t, n) ==
  LET m == MonthOf(t) + n
  IN  MkDate(m, IF DayOf(t) > DaysInMonth(m) THEN DaysInMonth(m) ELSE DayOf(t))

\* The dates of donor d's donations on record.
DonationDatesOf(d) == { donations[i].donationDate : i \in { j \in 1..Len(donations) : donations[j].donorId = d } }

\* C11: getDonorEligibility answers canDonate = true exactly when the donor has no
\* donation or the most recent donation date is at or before today minus 6 months
\* (so a donation 6 months minus 1 day ago is not eligible, one exactly 6 months ago
\* is), and otherwise canDonate = false with nextEligibleDate = that date + 6 months.
C11_Eligibility ==
  call.fn = "getDonorEligibility" =>
    LET dates == DonationDatesOf(call.donorId)
        last == CHOOSE t \in dates : \A t2 \in dates : t2 <= t
        eligible == dates = {} \/ last <= AddMonths(call.today, -6)
    IN  /\ call.ret.canDonate = eligible
        /\ call.ret.nextEligibleDate = IF eligible THEN None ELSE Some(AddMonths(last, 6))

\* C12: a POST /api/donations request goes on to createDonation only if its donor
\* is eligible at that moment; the request of a donor who is not eligible is
\* answered 400 with the nextEligibleDate of the eligibility result, and that step
\* changes no donation row, donor row or credit transaction.
C12_DonationNeedsEligibility ==
  [][ /\ \A r \in BagToSet(inflight') :
           (Launched(r) /\ r.pc = "createDonation_insert")
             => getDonorEligibilityAt(r.donorId, now).canDonate
      /\ (Arrives /\ inflight' = inflight /\ res'.op = "donations" /\ res'.status = 400)
           => /\ db' = db
              /\ \E d \in DOMAIN donors :
                   /\ ~getDonorEligibilityAt(d, now).canDonate
                   /\ IsSome(res'.nextEligibleDate)
                   /\ res'.nextEligibleDate = getDonorEligibilityAt(d, now).nextEligibleDate ]_vars

\* C12 witness: the second donor, who had a donation dated the 15th of month
\* 12 verified, asked to record another one and was refused until the 15th of month 18.
C12_Witness ==
  /\ res.op = "donations" /\ res.status = 400
  /\ res.nextEligibleDate = Some(MkDate(18, 15))
  /\ donors[2].totalDonations = 1
  /\ Len(donations) = 2

\* C13: no donor ever has two donations on record whose dates are less than 6
\* months apart.
C13_SixMonthCycle ==
  \A i, j \in 1..Len(donations) :
    (i # j /\ donations[i].donorId = donations[j].donorId
           /\ donations[i].donationDate <= donations[j].donationDate)
      => AddMonths(donations[i].donationDate, 6) <= donations[j].donationDate

\* C14: every donation recorded by createDonation or verifyDonation raises the
\* donor's cached balance by exactly 5 and logs an 'earned' transaction of exactly 5.
C14_FiveCreditsPerDonation ==
  [][ \A r \in Requests :
        /\ (Executes(r) /\ r.pc \in { "createDonation_update", "verifyDonation_update" })
             => donors'[r.donorId].credits = donors[r.donorId].credits + 5
        /\ (Executes(r) /\ IsAddCredits(r))
             => /\ Len(creditTransactions') = Len(creditTransactions) + 1
                /\ LastTransaction(creditTransactions').transactionType = "earned"
                /\ LastTransaction(creditTransactions').amount = 5 ]_vars

\* The donors a search at (latitude, longitude) with radius radiusKm and blood group
\* filter bloodGroup is to return: available, of that group when one is given,
\* at most radiusKm away.
NearbyDonors(latitude, longitude, radiusKm, bloodGroup) ==
  { d \in DOMAIN donors :
      /\ donors[d].isAvailable = TRUE
      /\ (bloodGroup \notin { None, Some("") }) => donors[d].bloodGroup = Val(bloodGroup)
      /\ Abs(donors[d].latitude - latitude) + Abs(donors[d].longitude - longitude) <= radiusKm }

\* The radius a search request asks for (5 when it gives none).
RadiusAsked(c) == IF c.radius = None THEN 5 ELSE Val(c.radius)

\* The donors in a returned list.
Returned(c) == { c.ret[i] : i \in 1..Len(c.ret) }

\* C15: every call of findNearbyDonors returns, and what it returns is exactly the
\* donors that are available, of the blood group asked for when one is given, and
\* at most radiusKm from the search point.
C15_LocatorMembership ==
  (call.fn = "search" /\ call.queried)
    => /\ call.status = 200
       /\ Returned(call) = NearbyDonors(Val(call.latitude), Val(call.longitude),
                                        RadiusAsked(call), call.bloodGroup)

\* C16: a list returned by findNearbyDonors is sorted nearest first, has no donor
\* twice and holds every matching donor.
C16_LocatorOrdering ==
  (call.fn = "search" /\ call.queried /\ call.status = 200)
    => LET dist(d) == Abs(donors[d].latitude - Val(call.latitude))
                      + Abs(donors[d].longitude - Val(call.longitude))
       IN  /\ \A i, j \in 1..Len(call.ret) : i < j => dist(call.ret[i]) <= dist(call.ret[j])
           /\ \A i, j \in 1..Len(call.ret) : i # j => call.ret[i] # call.ret[j]
           /\ Returned(call) = NearbyDonors(Val(call.latitude), Val(call.longitude),
                                            RadiusAsked(call), call.bloodGroup)

\* C16 witness: a search returned two donors, the second one farther away.
C16_Witness ==
  /\ call.fn = "search" /\ call.status = 200
  /\ Len(call.ret) = 2
  /\ donors[call.ret[1]].latitude = 0
  /\ donors[call.ret[2]].latitude = 5
  /\ call.ret[1] = 2

\* C17: a search request without latitude or without longitude is answered 400 and
\* findNearbyDonors is not called; with both, findNearbyDonors is called; and no
\* search changes a table.
C17_SearchNeedsCoordinates ==
  [][ (call'.fn = "search" /\ call' # call)
        => /\ db' = db
           /\ (call'.latitude = None \/ call'.longitude = None)
                => (call'.status = 400 /\ ~call'.queried)
           /\ (call'.latitude # None /\ call'.longitude # None) => call'.queried ]_vars

\* C17 witness: a search that gave a latitude and no longitude was refused.
C17_Witness ==
  /\ call.fn = "search" /\ call.status = 400
  /\ call.latitude # None /\ call.longitude = None
  /\ DOMAIN donors # {}

\* The 8 ABO/Rh blood groups.
BloodGroups == { "A+", "A-", "B+", "B-", "AB+", "AB-", "O+", "O-" }

\* C18: a search request with a radius that is not positive, or with a blood group
\* that is not one of the 8 groups, is answered with a client error and
\* findNearbyDonors is not called; a request with coordinates, a positive radius and
\* no such blood group is accepted.
C18_SearchValidation ==
  call.fn = "search" =>
    LET invalid == \/ (call.radius # None /\ Val(call.radius) <= 0)
                   \/ (call.bloodGroup \notin { None, Some("") }
                         /\ Val(call.bloodGroup) \notin BloodGroups)
    IN  /\ invalid => (call.status = 400 /\ ~call.queried)
        /\ (~invalid /\ call.latitude # None /\ call.longitude # None) => call.queried

\* C19: in every state, also while an operation is between its writes, each donor's
\* cached credits equals the donor's 'earned' minus 'spent' transaction amounts.
C19_LedgerAtAllTimes ==
  \A d \in DOMAIN donors : donors[d].credits = LedgerBalance(d)

\* C20: when a statement of a verifyDonation that ran alone has thrown after the
\* donation was inserted, the donations table, the donor's row, the transaction
\* log and the blood requests are what they were before the verification.
C20_VerifyAtomic ==
  (/\ res.op = "verify" /\ res.at # ""
   /\ IsSome(res.before)
   /\ Val(res.before).alone
   /\ Val(res.before).nOps = nOps)
    => /\ donations = Val(res.before).donations
       /\ donors[Val(res.before).donorId] = Val(res.before).donor
       /\ creditTransactions = Val(res.before).creditTransactions
       /\ bloodRequests = Val(res.before).bloodRequests

\* A table that only grows: every row it had is still there, unmodified, at the
\* same place.
GrowsOnly(old, new) ==
  /\ Len(new) >= Len(old)
  /\ \A i \in 1..Len(old) : new[i] = old[i]

\* C21: no step deletes or modifies a donation row or a credit-transaction row
\* (both tables only grow, by appending), and no step deletes a donor row.
C21_AppendOnly ==
  [][ /\ GrowsOnly(donations, donations')
      /\ GrowsOnly(creditTransactions, creditTransactions')
      /\ DOMAIN donors \subseteq DOMAIN donors' ]_vars

\* C21 witness: a donation was recorded and credits were spent since the start;
\* the first donation and its 'earned' transaction are still in place.
C21_Witness ==
  /\ Len(donations) = 2 /\ Len(creditTransactions) = 3
  /\ creditTransactions[3].transactionType = "spent"
  /\ donations[1] = NewDonationRow(1, 1, None, FirstDonationDate, None)
  /\ creditTransactions[1] = EarnedRow(1, EarnedAmount(None), Some(1))
  /\ inflight = EmptyBag

\* The credits donor d's record-donation and verify-donation operations earned:
\* `creditsEarned || 5` of each donation row they inserted, over the first n rows.
RECURSIVE AmountsEarned(_, _)
AmountsEarned(d, n) ==
  IF n = 0 THEN 0
  ELSE AmountsEarned(d, n - 1)
       + (IF donations[n].donorId = d
          THEN EarnedAmount(Some(donations[n].creditsEarned)) ELSE 0)

\* The earning operations of donor d that ran to their last write on the donor's
\* account (the 'earned' transaction).
EarnOperations(d) ==
  Cardinality({ i \in 1..Len(creditTransactions) :
                  /\ creditTransactions[i].donorId = d
                  /\ creditTransactions[i].transactionType = "earned" })

\* C22: once the operations on a donor have all completed, however they were
\* interleaved, the donor's credits are the sum of the amounts its record-donation
\* and verify-donation operations earned (less what was spent) and totalDonations
\* is the number of those operations: no increment is lost.
C22_NoLostUpdate ==
  \A d \in DOMAIN donors :
    (~InFlightOn(d) /\ d \notin aborted)
      => /\ donors[d].credits =
              AmountsEarned(d, Len(donations)) - SumAmounts(d, "spent", Len(creditTransactions))
         /\ donors[d].totalDonations = EarnOperations(d)

\* C22 witness: two operations on one donor ran interleaved (the one that inserted
\* its donation last logged its credits first) and both completed.
C22_Witness ==
  /\ inflight = EmptyBag
  /\ \E d \in DOMAIN donors \ aborted :
       \E i, j \in 1..Len(creditTransactions) :
         /\ i < j
         /\ creditTransactions[i].donorId = d /\ creditTransactions[j].donorId = d
         /\ creditTransactions[i].transactionType = "earned"
         /\ creditTransactions[j].transactionType = "earned"
         /\ Val(creditTransactions[i].relatedDonationId)
              > Val(creditTransactions[j].relatedDonationId)

\* The donation rows that reference blood request id.
DonationsFor(id) == { i \in 1..Len(donations) : donations[i].requestId = Some(id) }

\* C23: at most one donation row references a blood request, and at most one
\* 'earned' transaction was awarded for donations to it.
C23_FulfilledOnce ==
  \A id \in DOMAIN bloodRequests :
    /\ Cardinality(DonationsFor(id)) <= 1
    /\ Cardinality({ t \in 1..Len(creditTransactions) :
                       /\ creditTransactions[t].transactionType = "earned"
                       /\ IsSome(creditTransactions[t].relatedDonationId)
                       /\ Val(creditTransactions[t].relatedDonationId) \in DonationsFor(id) }) <= 1

\* The donor rows of user u.
ProfilesOf(u) == { d \in DOMAIN donors : donors[d].userId = u }

\* C24: no step leaves a user with more than one donor profile, and a
\* registration by a user who has a profile is answered with a client error on
\* arrival and creates nothing (it never goes on to createDonor).
C24_OneProfilePerUser ==
  [][ /\ \A u \in Users :
           Cardinality({ d \in DOMAIN donors' : donors'[d].userId = u }) <= 1
      /\ \A r \in BagToSet(inflight') :
           (Launched(r) /\ r.pc = "createDonor") => ProfilesOf(r.userId) = {}
      /\ (Arrives /\ inflight' = inflight /\ res'.op = "donors")
           => (res'.status = 400 /\ donors' = donors) ]_vars

\* C30: createDonor always inserts a donor with credits 0 and totalDonations 0,
\* and no step of PUT /api/donors/me, whatever the body (credits and
\* totalDonations fields included), changes any donor's credits or totalDonations
\* or the credit transactions.
C30_ProfileLeavesCounters ==
  [][ /\ \A r \in Requests :
           /\ (Executes(r) /\ r.pc = "createDonor")
                => /\ \E d \in DOMAIN donors' \ DOMAIN donors :
                        /\ donors'[d].userId = r.userId
                        /\ donors'[d].credits = 0
                        /\ donors'[d].totalDonations = 0
                   /\ \A d \in DOMAIN donors : donors'[d] = donors[d]
                   /\ creditTransactions' = creditTransactions
           /\ (Executes(r) /\ r.pc = "updateDonor")
                => /\ DOMAIN donors' = DOMAIN donors
                   /\ \A d \in DOMAIN donors :
                        /\ donors'[d].credits = donors[d].credits
                        /\ donors'[d].totalDonations = donors[d].totalDonations
                   /\ creditTransactions' = creditTransactions
      /\ (Arrives /\ inflight' = inflight /\ res'.op = "donors/me")
           => (donors' = donors /\ creditTransactions' = creditTransactions) ]_vars

\* C30 witness: u3 registered and got a row with zero counters, and the profile
\* of donor 1 was edited (new blood group) with its credits 5 and its one
\* donation still counted.
C30_Witness ==
  /\ res.op = "donors/me" /\ res.status = 200
  /\ donors[1].bloodGroup = "A-"
  /\ donors[1].credits = 5 /\ donors[1].totalDonations = 1
  /\ 3 \in DOMAIN donors
  /\ donors[3].userId = "u3" /\ donors[3].credits = 0 /\ donors[3].totalDonations = 0

\* The donation rows of donor d.
DonationsOf(d) == { i \in 1..Len(donations) : donations[i].donorId = d }

\* C25: for every donor none of whose operations is in flight, totalDonations is
\* the number of donation rows with that donor's id.
C25_TotalDonationsIsRowCount ==
  \A d \in DOMAIN donors :
    ~InFlightOn(d) => donors[d].totalDonations = Cardinality(DonationsOf(d))

\* C25 witness: a verification and a recorded donation have completed; the second
\* donor has two donation rows and nothing is in flight.
C25_Witness ==
  /\ inflight = EmptyBag
  /\ Cardinality(DonationsOf(2)) = 2
  /\ \E i \in DonationsOf(2) : donations[i].requestId = Some(1)
  /\ \E i \in DonationsOf(2) : donations[i].requestId = None

\* C26: for every donor with at least one donation and no operation in flight,
\* lastDonationDate is the latest donationDate among the donor's donation rows,
\* the date getLastDonation gives getDonorEligibility.
C26_LastDonationDateIsLatest ==
  \A d \in DOMAIN donors :
    (~InFlightOn(d) /\ DonationsOf(d) # {})
      => donors[d].lastDonationDate = Some(Val(getLastDonation(d)).donationDate)

\* The 'earned' transactions linked to donation i.
EarnedFor(i) ==
  { t \in 1..Len(creditTransactions) :
      /\ creditTransactions[t].transactionType = "earned"
      /\ creditTransactions[t].relatedDonationId = Some(i) }

\* C27: every donation row whose operation has completed has exactly one 'earned'
\* transaction linked to it, of the amount stored in the row's creditsEarned.
C27_OneEarnedPerDonation ==
  \A i \in 1..Len(donations) :
    ~InFlightOn(donations[i].donorId)
      => /\ Cardinality(EarnedFor(i)) = 1
         /\ \A t \in EarnedFor(i) :
              creditTransactions[t].amount = donations[i].creditsEarned

\* C28: no statement of a spend operation raises a donor's balance, whatever the
\* amount asked for (positive, zero or negative).
C28_SpendNeverIncreases ==
  [][ \A r \in Requests :
        (Executes(r) /\ r.pc \in { "spendCredits_update", "spendCredits_insert" })
          => \A d \in DOMAIN donors : donors'[d].credits <= donors[d].credits ]_vars

\* The statements of the status update and of the verification.
IsOwnerOnly(r) ==
  r.pc \in { "updateStatus", "verifyDonation_insert", "verifyDonation_update",
             "verifyDonation_addCredits", "verifyDonation_status" }

\* C29: a status update or a verification asked by a user who is not the
\* requester of the blood request is refused (403) on arrival and changes no
\* table; only the requester's requests go on to, and execute, the statements of
\* updateBloodRequestStatus and verifyDonation.
C29_OwnerOnly ==
  [][ /\ \A r \in BagToSet(inflight') :
           (Launched(r) /\ IsOwnerOnly(r))
             => bloodRequests[Val(r.requestId)].requesterId = r.userId
      /\ \A r \in Requests :
           (Executes(r) /\ IsOwnerOnly(r))
             => bloodRequests[Val(r.requestId)].requesterId = r.userId
      /\ (Arrives /\ inflight' = inflight
             /\ res'.op \in { "status", "verify" } /\ res'.status = 403)
           => db' = db ]_vars

\* C29 witness: a verification was just refused with 403, after an earlier request
\* that changed nothing; request 1 is still active and the tables are those of
\* the start.
C29_Witness ==
  /\ res.op = "verify" /\ res.status = 403
  /\ nOps = 2 /\ inflight = EmptyBag
  /\ bloodRequests = (1 :> NewBloodRequest("u3"))
  /\ Len(donations) = 1 /\ Len(creditTransactions) = 1
  /\ donors[1].credits = 5 /\ donors[2].totalDonations = 0

====
